---- MODULE Spec2Model ----
(***************************************************************************)
(* BattleChess9000 multiplayer service: the lobby / private-link server of *)
(* src/server.js (lines 130-329), followed by the two earlier iterations   *)
(* of the same server that the repository still holds.  One action per     *)
(* WebSocket event handler; every handler runs to completion               *)
(* (single-threaded Node event loop).                                      *)
(*                                                                         *)
(* Strings are tuples of character codes, so that substring() is SubSeq.   *)
(* A connection handle (ws) is a number minted at connect and never        *)
(* reused; the uuid minted for the connection is modelled by the same      *)
(* number, the uuid minted for a room by the next unused room number.      *)
(***************************************************************************)
EXTENDS Integers, Sequences, FiniteSets, TLC

VARIABLES clients, rooms, globalStats, nextWs, nextRoom, running, sent, lastLobby,
          clientRoom, iteration

vars == <<clients, rooms, globalStats, nextWs, nextRoom, running, sent, lastLobby,
          clientRoom, iteration>>

-----------------------------------------------------------------------------
(* Bounds of the model *)

\* connections ever opened
MaxConn == 3

\* rooms ever created
MaxRooms == 2

\* cap of a wins / losses counter
MaxStat == 1

-----------------------------------------------------------------------------
(* JavaScript values *)

\* the value of a missing message field
Undefined == << -1 >>

EmptyStr == << >>

\* "Guest"
Guest == <<7, 21, 5, 19, 20>>

\* "Player"
Player == <<16, 12, 1, 25, 5, 18>>

\* "Host"
Host == <<8, 15, 19, 20>>

\* "w_p"
AvatarPawn == <<23, 0, 16>>

\* "w_k"
AvatarKing == <<23, 0, 11>>

\* "Alice"
Alice == <<1, 12, 9, 3, 5>>

\* a 17-character name
LongName == <<1, 2, 3, 4, 5, 6, 7, 8, 9, 10, 11, 12, 13, 14, 15, 16, 17>>

\* "b_q"
AvatarQueen == <<2, 0, 17>>

\* "constructor", a key every object literal inherits from Object.prototype
Constructor == <<3, 15, 14, 19, 20, 18, 21, 3, 20, 15, 18>>

\* keys of globalStats = {} that read as a truthy value without being stored
Inherited == {Constructor}

\* msg.roomId = "constructor": rooms = {} reads it as the inherited function
InheritedRoom == 0

\* msg.name of the messages the model sends (a login may also omit it)
NameInputs == {Alice}

\* msg.avatar of the messages the model sends
AvatarInputs == {Undefined}

\* msg.winnerName / msg.loserName of the messages the model sends: under
\* Spec a game_over names a player without a record
StatNameInputs == {Guest}

\* msg.move of the messages the model sends
MoveInputs == {"e2e4"}

SafeNameLen == 15

Falsy(v) == v = Undefined \/ v = EmptyStr

\* a || b
OrElse(a, b) == IF Falsy(a) THEN b ELSE a

Min(a, b) == IF a < b THEN a ELSE b

\* s.substring(0, n)
Substring(s, n) == SubSeq(s, 1, Min(n, Len(s)))

\* msg.name.substring(0, 15) || "Player"
SafeName(name) == OrElse(Substring(name, SafeNameLen), Player)

-----------------------------------------------------------------------------
(* Helpers *)

MinOf(S) == CHOOSE x \in S : \A y \in S : x <= y

\* the elements of a set of numbers in ascending order: the iteration order
\* of the clients Map and of the rooms object (insertion order)
RECURSIVE Ascending(_)
Ascending(S) == IF S = {} THEN << >>
                ELSE <<MinOf(S)>> \o Ascending(S \ {MinOf(S)})

RECURSIVE Concat(_)
Concat(ss) == IF ss = << >> THEN << >> ELSE Head(ss) \o Concat(Tail(ss))

SelectSeqIdx(s, Test(_)) == Concat([i \in 1..Len(s) |-> IF Test(s[i]) THEN <<s[i]>> ELSE << >>])

Range(s) == {s[i] : i \in 1..Len(s)}

\* number of positions of s that satisfy Test
Count(s, Test(_)) == Cardinality({i \in 1..Len(s) : Test(s[i])})

Restrict(f, S) == [x \in S |-> f[x]]

-----------------------------------------------------------------------------
(* send and broadcastLobby *)

\* send(ws, data): delivered only to an open socket
Send(cl, ws, data) == IF ws \in DOMAIN cl THEN << [to |-> ws, data |-> data] >> ELSE << >>

\* JSON.stringify drops a property whose value is a function
NoStats == [omitted |-> TRUE]

\* globalStats[name] is truthy
Truthy(st, name) == name \in DOMAIN st \/ name \in Inherited

\* globalStats[data.name] || { wins: 0, losses: 0 }, as JSON.stringify writes it
StatsOf(st, name) ==
    IF name \in DOMAIN st THEN st[name]
    ELSE IF name \in Inherited THEN NoStats
    ELSE [wins |-> 0, losses |-> 0]

LobbyEntry(cl, st, ws) ==
    [id |-> cl[ws].id, name |-> cl[ws].name, avatar |-> cl[ws].avatar,
     stats |-> StatsOf(st, cl[ws].name)]

InLobby(cl, ws) == cl[ws].state = "lobby"

\* LobbyList without the state === 'lobby' test
LobbyList_Unfiltered(cl, st) ==
    LET order == Ascending(DOMAIN cl)
    IN  [i \in 1..Len(order) |-> LobbyEntry(cl, st, order[i])]

LobbyList(cl, st) ==
    LET order == Ascending(DOMAIN cl)
    IN  Concat([i \in 1..Len(order) |->
                  IF InLobby(cl, order[i]) THEN << LobbyEntry(cl, st, order[i]) >> ELSE << >>])

BroadcastLobby(cl, st) ==
    LET order == Ascending(DOMAIN cl)
        payload == [type |-> "lobby_update", players |-> LobbyList(cl, st)]
    IN  Concat([i \in 1..Len(order) |->
                  IF InLobby(cl, order[i]) THEN Send(cl, order[i], payload) ELSE << >>])

\* what a client in the lobby last saw of it: the ids listed by the most
\* recent lobby_update delivered to it since it entered the lobby (the view
\* is dropped when the client leaves the lobby)
IdsOf(players) == [i \in 1..Len(players) |-> players[i].id]

RECURSIVE Deliver(_, _)
Deliver(ll, msgs) ==
    IF msgs = << >> THEN ll
    ELSE LET m == Head(msgs)
             ll2 == IF m.data.type = "lobby_update" /\ m.to \in DOMAIN ll
                    THEN [ll EXCEPT ![m.to] = [got |-> TRUE, ids |-> IdsOf(m.data.players)]]
                    ELSE ll
         IN  Deliver(ll2, Tail(msgs))

NoLobbySeen == [got |-> FALSE, ids |-> << >>]

\* the handler's outcome: new tables and the messages it sent, in order
Finish(cl, rm, st, msgs) ==
    /\ clients' = cl
    /\ rooms' = rm
    /\ globalStats' = st
    /\ sent' = msgs
    /\ lastLobby' = Deliver([w \in DOMAIN cl |->
                                IF w \in DOMAIN lastLobby /\ InLobby(cl, w) THEN lastLobby[w]
                                ELSE NoLobbySeen], msgs)
    /\ UNCHANGED <<clientRoom, iteration>>

\* an exception thrown in a handler is not caught: the process exits and
\* the in-memory tables are gone
Crash ==
    /\ running' = FALSE
    /\ clients' = << >>
    /\ rooms' = << >>
    /\ globalStats' = << >>
    /\ sent' = << >>
    /\ lastLobby' = << >>
    /\ clientRoom' = << >>
    /\ UNCHANGED <<nextWs, nextRoom, iteration>>

-----------------------------------------------------------------------------
\* the three iterations of the server in the repository: the room server
\* (src/server.js 1-128), the lobby server (src/unnamed/part_000) and the
\* lobby server with private links (src/server.js 130-329)
Iterations == {"room", "lobby", "private"}

\* the tables of a server that has just started
Started ==
    /\ clients = << >>
    /\ rooms = << >>
    /\ globalStats = << >>
    /\ nextWs = 0
    /\ nextRoom = 0
    /\ running = TRUE
    /\ sent = << >>
    /\ lastLobby = << >>
    /\ clientRoom = << >>

Init == iteration = "private" /\ Started

\* wss.on("connection")
Connect ==
    /\ running
    /\ nextWs < MaxConn
    /\ nextWs' = nextWs + 1
    /\ LET ws == nextWs + 1
           cl == [w \in DOMAIN clients \cup {ws} |->
                    IF w = ws THEN [id |-> ws, name |-> Guest, avatar |-> AvatarPawn, state |-> "connecting"]
                    ELSE clients[w]]
       IN  Finish(cl, rooms, globalStats, << >>)
    /\ UNCHANGED <<nextRoom, running>>


\* the outcomes of Math.random() < 0.5 ? 'w' : 'b'
Colors == {"w", "b"}

\* startGame(roomId), with the outcome of Math.random() < 0.5 as p1Color
StartGame(roomId, cl, rm, st, p1Color) ==
    IF roomId \notin DOMAIN rm \/ Len(rm[roomId].players) # 2
    THEN [clients |-> cl, msgs |-> << >>]
    ELSE LET p1 == rm[roomId].players[1]
             p2 == rm[roomId].players[2]
             cl1 == [cl EXCEPT ![p1].state = "playing"]
             cl2 == [cl1 EXCEPT ![p2].state = "playing"]
             p2Color == IF p1Color = "w" THEN "b" ELSE "w"
         IN  [clients |-> cl2,
              msgs |-> Send(cl2, p1, [type |-> "game_start", roomId |-> roomId,
                                      color |-> p1Color, opponent |-> cl2[p2].name])
                       \o Send(cl2, p2, [type |-> "game_start", roomId |-> roomId,
                                         color |-> p2Color, opponent |-> cl2[p1].name])
                       \o BroadcastLobby(cl2, st)]

\* message {type: "login", name, avatar}
Login(ws, name, avatar) ==
    /\ running
    /\ ws \in DOMAIN clients
    /\ IF name = Undefined
       THEN Crash
       ELSE LET safeName == SafeName(name)
                st == IF Truthy(globalStats, safeName) THEN globalStats
                      ELSE [n \in DOMAIN globalStats \cup {safeName} |->
                              IF n = safeName THEN [wins |-> 0, losses |-> 0] ELSE globalStats[n]]
                cl == [clients EXCEPT ![ws].name = safeName,
                                      ![ws].avatar = OrElse(avatar, AvatarKing),
                                      ![ws].state = "lobby"]
            IN  /\ Finish(cl, rooms, st,
                          Send(cl, ws, [type |-> "login_success", myId |-> clients[ws].id])
                          \o BroadcastLobby(cl, st))
                /\ UNCHANGED <<nextWs, nextRoom, running>>

\* create_private that leaves the creator's state as it was
CreatePrivate_KeepsState(ws, name, avatar) ==
    /\ running
    /\ ws \in DOMAIN clients
    /\ nextRoom < MaxRooms
    /\ nextRoom' = nextRoom + 1
    /\ LET roomId == nextRoom + 1
           cl == [clients EXCEPT ![ws].name = OrElse(name, Host),
                                 ![ws].avatar = avatar]
           rm == [r \in DOMAIN rooms \cup {roomId} |->
                    IF r = roomId THEN [players |-> <<ws>>, isPrivate |-> TRUE] ELSE rooms[r]]
       IN  Finish(cl, rm, globalStats, Send(cl, ws, [type |-> "private_created", roomId |-> roomId]))
    /\ UNCHANGED <<nextWs, running>>

\* message {type: "create_private", name, avatar}
CreatePrivate(ws, name, avatar) ==
    /\ running
    /\ ws \in DOMAIN clients
    /\ nextRoom < MaxRooms
    /\ nextRoom' = nextRoom + 1
    /\ LET roomId == nextRoom + 1
           cl == [clients EXCEPT ![ws].name = OrElse(name, Host),
                                 ![ws].avatar = avatar,
                                 ![ws].state = "waiting_private"]
           rm == [r \in DOMAIN rooms \cup {roomId} |->
                    IF r = roomId THEN [players |-> <<ws>>, isPrivate |-> TRUE] ELSE rooms[r]]
       IN  Finish(cl, rm, globalStats, Send(cl, ws, [type |-> "private_created", roomId |-> roomId]))
    /\ UNCHANGED <<nextWs, running>>

\* message {type: "join_private", roomId, name, avatar}
\* (room.players.length of the inherited function throws)
JoinPrivate(ws, roomId, name, avatar) ==
    /\ running
    /\ ws \in DOMAIN clients
    /\ IF roomId = InheritedRoom
       THEN Crash
       ELSE /\ IF roomId \in DOMAIN rooms /\ Len(rooms[roomId].players) < 2
               THEN LET cl == [clients EXCEPT ![ws].name = OrElse(name, Guest),
                                              ![ws].avatar = avatar,
                                              ![ws].state = "playing"]
                        rm == [rooms EXCEPT ![roomId].players = Append(@, ws)]
                    IN  \E p1Color \in Colors :
                          LET sg == StartGame(roomId, cl, rm, globalStats, p1Color)
                          IN  Finish(sg.clients, rm, globalStats, sg.msgs)
               ELSE Finish(clients, rooms, globalStats,
                           Send(clients, ws, [type |-> "error", message |-> "Room not found or full"]))
            /\ UNCHANGED <<nextWs, nextRoom, running>>

\* challenge_request without the state === 'lobby' test on the target
ChallengeRequest_AnyStatus(ws, targetId) ==
    /\ running
    /\ ws \in DOMAIN clients
    /\ LET hits == {t \in DOMAIN clients : clients[t].id = targetId}
       IN  Finish(clients, rooms, globalStats,
                  IF hits = {} THEN << >>
                  ELSE Send(clients, MinOf(hits),
                            [type |-> "challenge_received", fromId |-> clients[ws].id,
                             fromName |-> clients[ws].name]))
    /\ UNCHANGED <<nextWs, nextRoom, running>>

\* message {type: "challenge_request", targetId}
ChallengeRequest(ws, targetId) ==
    /\ running
    /\ ws \in DOMAIN clients
    /\ LET hits == {t \in DOMAIN clients : clients[t].id = targetId /\ clients[t].state = "lobby"}
       IN  Finish(clients, rooms, globalStats,
                  IF hits = {} THEN << >>
                  ELSE Send(clients, MinOf(hits),
                            [type |-> "challenge_received", fromId |-> clients[ws].id,
                             fromName |-> clients[ws].name]))
    /\ UNCHANGED <<nextWs, nextRoom, running>>

\* message {type: "challenge_accept", targetId}
ChallengeAccept(ws, targetId) ==
    /\ running
    /\ ws \in DOMAIN clients
    /\ LET found == {o \in DOMAIN clients : clients[o].id = targetId}
       IN  IF found = {}
           THEN /\ Finish(clients, rooms, globalStats, << >>)
                /\ UNCHANGED nextRoom
           ELSE /\ nextRoom < MaxRooms
                /\ nextRoom' = nextRoom + 1
                /\ LET opponentWs == MinOf(found)
                       roomId == nextRoom + 1
                       rm == [r \in DOMAIN rooms \cup {roomId} |->
                                IF r = roomId THEN [players |-> <<ws, opponentWs>>, isPrivate |-> FALSE]
                                ELSE rooms[r]]
                   IN  \E p1Color \in Colors :
                         LET sg == StartGame(roomId, clients, rm, globalStats, p1Color)
                         IN  Finish(sg.clients, rm, globalStats, sg.msgs)
    /\ UNCHANGED <<nextWs, running>>

\* message {type: "move", roomId, move}
\* (players.forEach of the inherited function throws)
Move(ws, roomId, move) ==
    /\ running
    /\ ws \in DOMAIN clients
    /\ IF roomId = InheritedRoom
       THEN Crash
       ELSE /\ LET players == IF roomId \in DOMAIN rooms THEN rooms[roomId].players ELSE << >>
               IN  Finish(clients, rooms, globalStats,
                          Concat([i \in 1..Len(players) |->
                                    IF players[i] # ws
                                    THEN Send(clients, players[i], [type |-> "move", move |-> move])
                                    ELSE << >>]))
            /\ UNCHANGED <<nextWs, nextRoom, running>>

\* game_over that books the loser's game as a win
GameOver_LossAsWin(ws, winnerName, loserName) ==
    /\ running
    /\ ws \in DOMAIN clients
    /\ winnerName \in DOMAIN globalStats => globalStats[winnerName].wins < MaxStat
    /\ loserName \in DOMAIN globalStats => globalStats[loserName].wins < MaxStat
    /\ winnerName # loserName
    /\ LET st1 == IF winnerName \in DOMAIN globalStats
                  THEN [globalStats EXCEPT ![winnerName].wins = @ + 1] ELSE globalStats
           st2 == IF loserName \in DOMAIN st1
                  THEN [st1 EXCEPT ![loserName].wins = @ + 1] ELSE st1
       IN  Finish(clients, rooms, st2, << >>)
    /\ UNCHANGED <<nextWs, nextRoom, running>>

\* message {type: "game_over", winnerName, loserName}; the increment of an
\* inherited key lands on the inherited object, not in globalStats
GameOver(ws, winnerName, loserName) ==
    /\ running
    /\ ws \in DOMAIN clients
    /\ winnerName \in DOMAIN globalStats => globalStats[winnerName].wins < MaxStat
    /\ loserName \in DOMAIN globalStats => globalStats[loserName].losses < MaxStat
    /\ LET st1 == IF winnerName \in DOMAIN globalStats
                  THEN [globalStats EXCEPT ![winnerName].wins = @ + 1] ELSE globalStats
           st2 == IF loserName \in DOMAIN st1
                  THEN [st1 EXCEPT ![loserName].losses = @ + 1] ELSE st1
       IN  Finish(clients, rooms, st2, << >>)
    /\ UNCHANGED <<nextWs, nextRoom, running>>

\* a message whose type no branch handles (return_lobby among them), or
\* whose text JSON.parse rejects
Ignored(ws) ==
    /\ running
    /\ ws \in DOMAIN clients
    /\ Finish(clients, rooms, globalStats, << >>)
    /\ UNCHANGED <<nextWs, nextRoom, running>>

\* a message whose JSON text is null: JSON.parse returns null and reading
\* msg.type throws
NullMessage(ws) ==
    /\ running
    /\ ws \in DOMAIN clients
    /\ Crash

\* the rooms the close handler visits, in the order of the for-in loop
RoomsOf(rm, ws) == SelectSeqIdx(Ascending(DOMAIN rm), LAMBDA r : ws \in Range(rm[r].players))

\* ws.on("close")
Close(ws) ==
    /\ running
    /\ ws \in DOMAIN clients
    /\ LET mine == RoomsOf(rooms, ws)
           notes == Concat([k \in 1..Len(mine) |->
                      LET players == rooms[mine[k]].players
                      IN  Concat([i \in 1..Len(players) |->
                                    IF players[i] # ws
                                    THEN Send(clients, players[i], [type |-> "opponent_disconnected"])
                                    ELSE << >>])])
           rm == Restrict(rooms, DOMAIN rooms \ Range(mine))
           cl == Restrict(clients, DOMAIN clients \ {ws})
       IN  Finish(cl, rm, globalStats, notes \o BroadcastLobby(cl, globalStats))
    /\ UNCHANGED <<nextWs, nextRoom, running>>

WsIds == 1..MaxConn

RoomIds == 1..MaxRooms

\* msg.roomId of the messages the model sends
RoomInputs == RoomIds \cup {InheritedRoom}

Next ==
    \/ Connect
    \/ \E ws \in WsIds, name \in NameInputs \cup {Undefined}, avatar \in AvatarInputs : Login(ws, name, avatar)
    \/ \E ws \in WsIds, name \in NameInputs, avatar \in AvatarInputs : CreatePrivate(ws, name, avatar)
    \/ \E ws \in WsIds, roomId \in RoomInputs, name \in NameInputs, avatar \in AvatarInputs :
          JoinPrivate(ws, roomId, name, avatar)
    \/ \E ws \in WsIds, targetId \in WsIds : ChallengeRequest(ws, targetId)
    \/ \E ws \in WsIds, targetId \in WsIds : ChallengeAccept(ws, targetId)
    \/ \E ws \in WsIds, roomId \in RoomInputs, move \in MoveInputs : Move(ws, roomId, move)
    \/ \E ws \in WsIds, w \in StatNameInputs, l \in StatNameInputs : GameOver(ws, w, l)
    \/ \E ws \in WsIds : Ignored(ws)
    \/ \E ws \in WsIds : NullMessage(ws)
    \/ \E ws \in WsIds : Close(ws)

Spec == Init /\ [][Next]_vars

-----------------------------------------------------------------------------
(***************************************************************************)
(* The lobby server of src/unnamed/part_000, the iteration before private  *)
(* links.  Its connection, login, challenge_request, move and game_over    *)
(* handlers are the same text as those of src/server.js (part_000 lines    *)
(* 50-59, 68-82, 85-99, 131-138, 141-149) and are the actions above; its   *)
(* challenge_accept, return_lobby and close handlers differ.               *)
(***************************************************************************)

\* message {type: "challenge_accept", targetId}
LobbyChallengeAccept(ws, targetId) ==
    /\ running
    /\ ws \in DOMAIN clients
    /\ LET found == {o \in DOMAIN clients : clients[o].id = targetId}
       IN  IF found = {}
           THEN /\ Finish(clients, rooms, globalStats, << >>)
                /\ UNCHANGED nextRoom
           ELSE /\ nextRoom < MaxRooms
                /\ nextRoom' = nextRoom + 1
                /\ LET opponentWs == MinOf(found)
                       roomId == nextRoom + 1
                       rm == [r \in DOMAIN rooms \cup {roomId} |->
                                IF r = roomId THEN [players |-> <<ws, opponentWs>>] ELSE rooms[r]]
                       cl1 == [clients EXCEPT ![ws].state = "playing"]
                       cl == [cl1 EXCEPT ![opponentWs].state = "playing"]
                   IN  \E p1Color \in Colors :
                         LET p2Color == IF p1Color = "w" THEN "b" ELSE "w"
                         IN  Finish(cl, rm, globalStats,
                                    Send(cl, ws, [type |-> "game_start", roomId |-> roomId,
                                                  color |-> p1Color, opponent |-> cl[opponentWs].name])
                                    \o Send(cl, opponentWs, [type |-> "game_start", roomId |-> roomId,
                                                             color |-> p2Color, opponent |-> cl[ws].name])
                                    \o BroadcastLobby(cl, globalStats))
    /\ UNCHANGED <<nextWs, running>>

\* message {type: "return_lobby"}
ReturnLobby(ws) ==
    /\ running
    /\ ws \in DOMAIN clients
    /\ LET cl == [clients EXCEPT ![ws].state = "lobby"]
       IN  Finish(cl, rooms, globalStats, BroadcastLobby(cl, globalStats))
    /\ UNCHANGED <<nextWs, nextRoom, running>>

\* ws.on("close")
LobbyClose(ws) ==
    /\ running
    /\ ws \in DOMAIN clients
    /\ LET cl == Restrict(clients, DOMAIN clients \ {ws})
       IN  Finish(cl, rooms, globalStats, BroadcastLobby(cl, globalStats))
    /\ UNCHANGED <<nextWs, nextRoom, running>>

\* the ledger of wins and losses: the same server with two connections, so
\* that names of every kind and known winners and losers fit
LedgerConn == 2

\* msg.name of the logins: empty, longer than 15 characters, inherited key
LedgerNames == {EmptyStr, LongName, Constructor}

\* msg.winnerName / msg.loserName: two names with a record after login, a
\* name that never has one, and the inherited key
LedgerStatNames == {Player, Substring(LongName, SafeNameLen), Guest, Constructor}

LedgerConnect == nextWs < LedgerConn /\ Connect

NextLedger ==
    \/ LedgerConnect
    \/ \E ws \in WsIds, name \in LedgerNames, avatar \in AvatarInputs : Login(ws, name, avatar)
    \/ \E ws \in WsIds, targetId \in WsIds : ChallengeAccept(ws, targetId)
    \/ \E ws \in WsIds, w \in LedgerStatNames, l \in LedgerStatNames : GameOver(ws, w, l)
    \/ \E ws \in WsIds : Close(ws)

SpecLedger == Init /\ [][NextLedger]_vars

NextLobby ==
    \/ Connect
    \/ \E ws \in WsIds, name \in NameInputs \cup {Undefined}, avatar \in AvatarInputs : Login(ws, name, avatar)
    \/ \E ws \in WsIds, targetId \in WsIds : ChallengeRequest(ws, targetId)
    \/ \E ws \in WsIds, targetId \in WsIds : LobbyChallengeAccept(ws, targetId)
    \/ \E ws \in WsIds, roomId \in RoomInputs, move \in MoveInputs : Move(ws, roomId, move)
    \/ \E ws \in WsIds, w \in StatNameInputs, l \in StatNameInputs : GameOver(ws, w, l)
    \/ \E ws \in WsIds : ReturnLobby(ws)
    \/ \E ws \in WsIds : Ignored(ws)
    \/ \E ws \in WsIds : NullMessage(ws)
    \/ \E ws \in WsIds : LobbyClose(ws)

InitLobby == iteration = "lobby" /\ Started

SpecLobby == InitLobby /\ [][NextLobby]_vars

-----------------------------------------------------------------------------
(***************************************************************************)
(* The room server of src/server.js lines 1-128, the first iteration.  It  *)
(* keeps no registry: clients holds its open sockets, rooms[id].players    *)
(* holds { ws, name, color } records under ids the clients choose, and     *)
(* clientRoom maps a socket to the room it joined last.                    *)
(***************************************************************************)

\* a join message without roomId
NoRoom == -1

\* color: null
Null == "null"

\* wss.on("connection")
RoomConnect ==
    /\ running
    /\ nextWs < MaxConn
    /\ nextWs' = nextWs + 1
    /\ clients' = [w \in DOMAIN clients \cup {nextWs + 1} |->
                     IF w = nextWs + 1 THEN [state |-> "open"] ELSE clients[w]]
    /\ sent' = << >>
    /\ lastLobby' = [w \in DOMAIN clients' |-> NoLobbySeen]
    /\ UNCHANGED <<rooms, globalStats, nextRoom, running, clientRoom, iteration>>

\* the outcomes of Math.random() < 0.5 ? ["w", "b"] : ["b", "w"]
ColorPairs == { <<"w", "b">>, <<"b", "w">> }

\* join without the players.length >= 2 test
Join_NoFullCheck(ws, roomId, name) ==
    /\ running
    /\ ws \in DOMAIN clients
    /\ roomId \in RoomIds
    /\ LET rm0 == IF roomId \in DOMAIN rooms THEN rooms
                  ELSE [r \in DOMAIN rooms \cup {roomId} |->
                          IF r = roomId THEN [players |-> << >>] ELSE rooms[r]]
           pushed == Append(rm0[roomId].players, [ws |-> ws, name |-> OrElse(name, Player), color |-> Null])
       IN  /\ rooms' = [rm0 EXCEPT ![roomId].players = pushed]
           /\ clientRoom' = [w \in DOMAIN clientRoom \cup {ws} |-> IF w = ws THEN roomId ELSE clientRoom[w]]
           /\ sent' = << >>
    /\ UNCHANGED <<clients, globalStats, lastLobby, nextWs, nextRoom, running, iteration>>

\* message {type: "join", roomId, name}
Join(ws, roomId, name) ==
    /\ running
    /\ ws \in DOMAIN clients
    /\ IF roomId = NoRoom
       THEN /\ sent' = Send(clients, ws, [type |-> "error", message |-> "No roomId provided"])
            /\ UNCHANGED <<clients, rooms, globalStats, lastLobby, nextWs, nextRoom, running,
                           clientRoom, iteration>>
       ELSE IF roomId = InheritedRoom
       THEN Crash
       ELSE LET rm0 == IF roomId \in DOMAIN rooms THEN rooms
                       ELSE [r \in DOMAIN rooms \cup {roomId} |->
                               IF r = roomId THEN [players |-> << >>] ELSE rooms[r]]
            IN  IF Len(rm0[roomId].players) >= 2
                THEN /\ sent' = Send(clients, ws, [type |-> "error", message |-> "Room full"])
                     /\ rooms' = rm0
                     /\ UNCHANGED <<clients, globalStats, lastLobby, nextWs, nextRoom, running,
                                    clientRoom, iteration>>
                ELSE LET pushed == Append(rm0[roomId].players,
                                          [ws |-> ws, name |-> OrElse(name, Player), color |-> Null])
                     IN  /\ clientRoom' = [w \in DOMAIN clientRoom \cup {ws} |->
                                             IF w = ws THEN roomId ELSE clientRoom[w]]
                         /\ IF Len(pushed) = 2
                            THEN \E colors \in ColorPairs :
                                   LET players == [i \in 1..2 |-> [pushed[i] EXCEPT !.color = colors[i]]]
                                   IN  /\ rooms' = [rm0 EXCEPT ![roomId].players = players]
                                       /\ sent' = Concat([i \in 1..2 |->
                                                    Send(clients, players[i].ws,
                                                         [type |-> "start", color |-> players[i].color])])
                            ELSE /\ rooms' = [rm0 EXCEPT ![roomId].players = pushed]
                                 /\ sent' = << >>
                         /\ UNCHANGED <<clients, globalStats, lastLobby, nextWs, nextRoom, running,
                                        iteration>>

\* message {type: "move", roomId, move}, relayed by broadcastToRoom
RoomMove(ws, roomId, move) ==
    /\ running
    /\ ws \in DOMAIN clients
    /\ IF roomId = InheritedRoom
       THEN Crash
       ELSE /\ LET players == IF roomId \in DOMAIN rooms THEN rooms[roomId].players ELSE << >>
               IN  sent' = Concat([i \in 1..Len(players) |->
                                     IF players[i].ws # ws
                                     THEN Send(clients, players[i].ws, [type |-> "move", move |-> move])
                                     ELSE << >>])
            /\ UNCHANGED <<clients, rooms, globalStats, lastLobby, nextWs, nextRoom, running,
                           clientRoom, iteration>>

\* ws.on("close")
RoomClose(ws) ==
    /\ running
    /\ ws \in DOMAIN clients
    /\ clients' = Restrict(clients, DOMAIN clients \ {ws})
    /\ lastLobby' = Restrict(lastLobby, DOMAIN clients \ {ws})
    /\ sent' = << >>
    /\ IF ws \notin DOMAIN clientRoom \/ clientRoom[ws] \notin DOMAIN rooms
       THEN UNCHANGED <<rooms, clientRoom>>
       ELSE LET roomId == clientRoom[ws]
                left == SelectSeq(rooms[roomId].players, LAMBDA p : p.ws # ws)
            IN  /\ clientRoom' = Restrict(clientRoom, DOMAIN clientRoom \ {ws})
                /\ rooms' = IF left = << >>
                            THEN Restrict(rooms, DOMAIN rooms \ {roomId})
                            ELSE [rooms EXCEPT ![roomId].players = left]
    /\ UNCHANGED <<globalStats, nextWs, nextRoom, running, iteration>>

\* a message of another type, or text JSON.parse rejects
RoomIgnored(ws) ==
    /\ running
    /\ ws \in DOMAIN clients
    /\ sent' = << >>
    /\ UNCHANGED <<clients, rooms, globalStats, lastLobby, nextWs, nextRoom, running,
                   clientRoom, iteration>>

NextRoom ==
    \/ RoomConnect
    \/ \E ws \in WsIds, roomId \in RoomInputs \cup {NoRoom}, name \in NameInputs :
          Join(ws, roomId, name)
    \/ \E ws \in WsIds, roomId \in RoomInputs, move \in MoveInputs : RoomMove(ws, roomId, move)
    \/ \E ws \in WsIds : RoomIgnored(ws)
    \/ \E ws \in WsIds : RoomClose(ws)

InitRoom == iteration = "room" /\ Started

SpecRoom == InitRoom /\ [][NextRoom]_vars

-----------------------------------------------------------------------------
(* The three iterations side by side *)

InitAll == iteration \in Iterations /\ Started

NextAll ==
    \/ iteration = "room" /\ NextRoom
    \/ iteration = "lobby" /\ NextLobby
    \/ iteration = "private" /\ Next

SpecAll == InitAll /\ [][NextAll]_vars

-----------------------------------------------------------------------------
(* Vocabulary of the properties *)

Members(rm, r) == Range(rm[r].players)

\* the sessions (rooms of the session table) a connection is a member of
SessionsOf(rm, w) == {r \in DOMAIN rm : w \in Members(rm, r)}

\* a live session: a room of the session table whose game has two seats
LiveSessionsOf(rm, w) == {r \in SessionsOf(rm, w) : Len(rm[r].players) = 2}

\* how many messages of a type the handler delivered to a connection
Delivered(msgs, w, type) == Count(msgs, LAMBDA m : m.to = w /\ m.data.type = type)

\* how many messages of any type the handler delivered to a connection
DeliveredAny(msgs, w) == Count(msgs, LAMBDA m : m.to = w)

\* the connection other than c in a two-member room, if there is one
Survivors(rm, r, c) == IF Len(rm[r].players) = 2 /\ c \in Members(rm, r)
                       THEN Members(rm, r) \ {c} ELSE {}

LobbySet(cl) == {w \in DOMAIN cl : cl[w].state = "lobby"}

-----------------------------------------------------------------------------
\* C1: in every reachable state a connection has status Playing if and only
\* if it is a member of exactly one live session, and a connection with
\* status Lobby is a member of no session.
C1_PlayingIffOneLiveSession ==
    \A w \in DOMAIN clients :
        /\ clients[w].state = "playing" <=> Cardinality(LiveSessionsOf(rooms, w)) = 1
        /\ clients[w].state = "lobby" => SessionsOf(rooms, w) = {}

\* C2: when a member of a two-member session disconnects, the other member
\* receives exactly one opponent_disconnected for that disconnect and the
\* session leaves the session table; a later move naming a session id that
\* is no longer in the table delivers nothing and changes no state.
C2_DisconnectTearsDownOnce ==
    [][ /\ \A c \in DOMAIN clients : Close(c) =>
              \A r \in SessionsOf(rooms, c) : \A o \in Survivors(rooms, r, c) :
                  /\ Delivered(sent', o, "opponent_disconnected") = 1
                  /\ r \notin DOMAIN rooms'
        /\ \A w \in DOMAIN clients, r \in RoomIds, m \in MoveInputs :
              (Move(w, r, m) /\ r <= nextRoom /\ r \notin DOMAIN rooms) =>
                  /\ sent' = << >>
                  /\ UNCHANGED <<clients, rooms, globalStats>>
      ]_vars

\* C3: after a session member disconnects, the surviving member's status is
\* Lobby and the survivor is listed in, and receives, the lobby_update the
\* disconnect broadcasts; the survivor is not left Playing without a session.
C3_SurvivorReturnsToLobby ==
    [][ \A c \in DOMAIN clients : Close(c) =>
            \A r \in SessionsOf(rooms, c) : \A o \in Survivors(rooms, r, c) :
                /\ clients'[o].state = "lobby"
                /\ \E i \in 1..Len(sent') :
                      /\ sent'[i].to = o
                      /\ sent'[i].data.type = "lobby_update"
                      /\ clients'[o].id \in Range(IdsOf(sent'[i].data.players))
      ]_vars

\* C4: a challenge_accept whose target is another connection that does not
\* have status Lobby is answered with an error to the accepter, creates no
\* session and changes no connection's status.
C4_AcceptRevalidatesTarget ==
    [][ \A w \in DOMAIN clients, t \in WsIds :
            ( /\ ChallengeAccept(w, t)
              /\ \E o \in DOMAIN clients \ {w} : clients[o].id = t /\ clients[o].state # "lobby" ) =>
                /\ Delivered(sent', w, "error") = 1
                /\ rooms' = rooms
                /\ \A v \in DOMAIN clients : clients'[v].state = clients[v].state
      ]_vars

\* C5: a challenge_accept whose targetId is the sender's own identity is
\* answered with an error: no session is created, no game_start is sent and
\* the sender's status is unchanged.
C5_SelfAcceptRejected ==
    [][ \A w \in DOMAIN clients :
            ChallengeAccept(w, clients[w].id) =>
                /\ Delivered(sent', w, "error") = 1
                /\ rooms' = rooms
                /\ \A v \in DOMAIN clients' : Delivered(sent', v, "game_start") = 0
                /\ clients'[w].state = clients[w].state
      ]_vars

\* C6: a move naming a session of the table is delivered exactly once to
\* every member other than the sender and to nobody else (never to the
\* sender, who gets no acknowledgement); a move naming no session of the
\* table delivers nothing.
C6_MoveRelayedOncePerPeer ==
    [][ \A w \in DOMAIN clients, r \in RoomInputs, m \in MoveInputs :
            Move(w, r, m) =>
                IF r \in DOMAIN rooms
                THEN /\ \A o \in Members(rooms, r) \ {w} : Delivered(sent', o, "move") = 1
                     /\ \A i \in 1..Len(sent') :
                           /\ sent'[i].to \in Members(rooms, r) \ {w}
                           /\ sent'[i].data = [type |-> "move", move |-> m]
                ELSE sent' = << >>
      ]_vars

JoinError(w) == << [to |-> w, data |-> [type |-> "error", message |-> "Room not found or full"]] >>

\* C7: a join_private naming a session id that is not in the session table,
\* or a session that already has two members, sends the error reply to the
\* sender (and nothing else) and leaves every connection's record and the
\* session table as they were.
C7_JoinMissingOrFullIsError ==
    [][ \A r \in RoomInputs :
            (r \notin DOMAIN rooms \/ Len(rooms[r].players) = 2) =>
                \A w \in DOMAIN clients, n \in NameInputs, a \in AvatarInputs :
                    JoinPrivate(w, r, n, a) =>
                        /\ sent' = JoinError(w)
                        /\ clients' = clients
                        /\ rooms' = rooms
      ]_vars

\* the game_start messages of session r delivered to p, as positions of msgs
GameStarts(msgs, p, r) ==
    {i \in 1..Len(msgs) : /\ msgs[i].to = p
                          /\ msgs[i].data.type = "game_start"
                          /\ msgs[i].data.roomId = r}

\* session r starts in this step: it gets its second member
Starts(r) ==
    /\ r \in DOMAIN rooms'
    /\ Len(rooms'[r].players) = 2
    /\ r \in DOMAIN rooms => Len(rooms[r].players) < 2

\* C8: whenever a session starts, both members end with status Playing,
\* each member receives exactly one game_start carrying the session's id,
\* the two colors sent are one white and one black, and each game_start
\* names the other member's display name.
C8_SessionStart ==
    [][ \A r \in RoomIds : Starts(r) =>
            LET p1 == rooms'[r].players[1]
                p2 == rooms'[r].players[2]
            IN  /\ clients'[p1].state = "playing"
                /\ clients'[p2].state = "playing"
                /\ Cardinality(GameStarts(sent', p1, r)) = 1
                /\ Cardinality(GameStarts(sent', p2, r)) = 1
                /\ Delivered(sent', p1, "game_start") = 1
                /\ Delivered(sent', p2, "game_start") = 1
                /\ \A i \in GameStarts(sent', p1, r), j \in GameStarts(sent', p2, r) :
                      /\ {sent'[i].data.color, sent'[j].data.color} = {"w", "b"}
                      /\ sent'[i].data.opponent = clients'[p2].name
                      /\ sent'[j].data.opponent = clients'[p1].name
      ]_vars

\* C9: every lobby_update sent lists the connections whose status is Lobby
\* at the broadcast, one entry each and no entry for a connection of any
\* other status, and is delivered only to connections whose status is Lobby.
C9_LobbyUpdateListsLobbyOnly ==
    \A i \in 1..Len(sent) :
        sent[i].data.type = "lobby_update" =>
            LET players == sent[i].data.players
            IN  /\ sent[i].to \in LobbySet(clients)
                /\ \A k \in 1..Len(players) :
                      \E w \in LobbySet(clients) : players[k].id = clients[w].id
                /\ \A w \in LobbySet(clients) :
                      Cardinality({k \in 1..Len(players) : players[k].id = clients[w].id}) = 1

\* C9 witness: a lobby_update listing somebody has just been delivered while
\* a WaitingPrivate connection and a Playing connection are open.
C9_Witness ==
    /\ \E i \in 1..Len(sent) : sent[i].data.type = "lobby_update" /\ sent[i].data.players # << >>
    /\ \A st \in {"waiting_private", "playing"} :
          \E w \in DOMAIN clients : clients[w].state = st

\* C10: after any handler finishes, the most recent lobby_update received
\* by each connection of status Lobby lists exactly the connections that
\* now have status Lobby.
C10_LobbyViewsCurrent ==
    \A w \in LobbySet(clients) :
        /\ lastLobby[w].got
        /\ Range(lastLobby[w].ids) = {clients[v].id : v \in LobbySet(clients)}


ChallengeReceived(cl, w, o) ==
    << [to |-> o, data |-> [type |-> "challenge_received", fromId |-> cl[w].id,
                            fromName |-> cl[w].name]] >>

\* C11: challenge_request{targetId} delivers challenge_received, carrying
\* the sender's identity and display name, to the connection of that
\* identity only when its status is Lobby, and to nobody else; when no
\* connection has that identity or it is not in Lobby nothing is sent; in
\* both cases the registry, the session table and the stats are unchanged.
C11_ChallengeRequestOnlyToLobby ==
    [][ \A w \in DOMAIN clients, t \in WsIds :
            ChallengeRequest(w, t) =>
                /\ UNCHANGED <<clients, rooms, globalStats>>
                /\ IF \E o \in DOMAIN clients : clients[o].id = t /\ clients[o].state = "lobby"
                   THEN \E o \in DOMAIN clients :
                           /\ clients[o].id = t
                           /\ sent' = ChallengeReceived(clients, w, o)
                   ELSE sent' = << >>
      ]_vars

\* C11 witness: a challenge_received has just been delivered to a Lobby
\* connection while another open connection is not in Lobby.
C11_Witness ==
    /\ \E i \in 1..Len(sent) : /\ sent[i].data.type = "challenge_received"
                               /\ sent[i].data.fromId # clients[sent[i].to].id
    /\ \E v \in DOMAIN clients : clients[v].state # "lobby"

\* C13: no message of one connection stops the server or touches another
\* connection's record: a login without a name and a JSON text that is not
\* an object leave the server running and the other connections' records
\* as they were, and a dropped message sends nothing and changes nothing.
C13_NoMessageStopsTheServer ==
    [][ \A w \in DOMAIN clients :
            ( \/ Ignored(w)
              \/ NullMessage(w)
              \/ \E a \in AvatarInputs : Login(w, Undefined, a) ) =>
                /\ running'
                /\ sent' = << >>
                /\ \A v \in DOMAIN clients \ {w} : v \in DOMAIN clients' /\ clients'[v] = clients[v]
      ]_vars

PrivateCreated(w, r) == << [to |-> w, data |-> [type |-> "private_created", roomId |-> r]] >>

\* C15: create_private adds one session whose members are exactly the
\* creator, sets the creator's status to WaitingPrivate and sends
\* private_created with the session's id to the creator and nothing to
\* anyone else; no lobby_update lists a WaitingPrivate connection.
C15_CreatePrivate ==
    [][ /\ \A w \in DOMAIN clients, n \in NameInputs, a \in AvatarInputs :
              CreatePrivate(w, n, a) =>
                  \E r \in DOMAIN rooms' \ DOMAIN rooms :
                      /\ DOMAIN rooms' = DOMAIN rooms \cup {r}
                      /\ \A q \in DOMAIN rooms : rooms'[q] = rooms[q]
                      /\ rooms'[r].players = <<w>>
                      /\ clients'[w].state = "waiting_private"
                      /\ sent' = PrivateCreated(w, r)
        /\ \A i \in 1..Len(sent') :
              sent'[i].data.type = "lobby_update" =>
                  \A k \in 1..Len(sent'[i].data.players) :
                      \A v \in DOMAIN clients' :
                          clients'[v].id = sent'[i].data.players[k].id =>
                              clients'[v].state # "waiting_private"
      ]_vars

\* C15 witness: private_created has just been sent to a connection that is
\* now WaitingPrivate, while another connection is in the lobby.
C15_Witness ==
    \E w \in DOMAIN clients, r \in DOMAIN rooms :
        /\ sent = PrivateCreated(w, r)
        /\ clients[w].state = "waiting_private"
        /\ \E v \in DOMAIN clients \ {w} : clients[v].state = "lobby"

\* C18: the members of any session are distinct connections.
C18_MembersDistinct ==
    \A r \in DOMAIN rooms : Cardinality(Members(rooms, r)) = Len(rooms[r].players)

\* C19: a move is relayed into a session only when its sender is a member
\* of it: a move naming a session the sender is not a member of delivers
\* no move to anyone.
C19_MoveOnlyFromMembers ==
    [][ \A w \in DOMAIN clients, r \in RoomIds, m \in MoveInputs :
            (r \in DOMAIN rooms /\ w \notin Members(rooms, r)) =>
                (Move(w, r, m) =>
                    \A v \in DOMAIN clients : Delivered(sent', v, "move") = 0)
      ]_vars

\* C12: return_lobby sets the sender's status to Lobby and removes the
\* sender from its session, destroying the session if that empties it, so
\* that afterwards the sender is a member of no session and no session is
\* empty; the lobby broadcast that follows reaches the sender and lists it.
C12_ReturnLobbyLeavesSession ==
    [][ \A w \in DOMAIN clients :
            ReturnLobby(w) =>
                /\ clients'[w].state = "lobby"
                /\ SessionsOf(rooms', w) = {}
                /\ \A r \in DOMAIN rooms' : rooms'[r].players # << >>
                /\ \E i \in 1..Len(sent') :
                      /\ sent'[i].to = w
                      /\ sent'[i].data.type = "lobby_update"
                      /\ clients'[w].id \in Range(IdsOf(sent'[i].data.players))
      ]_vars

\* C14: game_over{winnerName, loserName} adds exactly 1 to the wins of the
\* winner's record if there is one and exactly 1 to the losses of the
\* loser's record if there is one, creates no record, replies nothing, and
\* leaves the session table and every connection's status unchanged.
C14_GameOverEffect ==
    [][ \A w \in DOMAIN clients, a \in LedgerStatNames, b \in LedgerStatNames :
            GameOver(w, a, b) =>
                /\ DOMAIN globalStats' = DOMAIN globalStats
                /\ \A n \in DOMAIN globalStats :
                      /\ globalStats'[n].wins = globalStats[n].wins + (IF n = a THEN 1 ELSE 0)
                      /\ globalStats'[n].losses = globalStats[n].losses + (IF n = b THEN 1 ELSE 0)
                /\ sent' = << >>
                /\ rooms' = rooms
                /\ clients' = clients
      ]_vars

\* a game_over has booked a win for one record and a loss for another while
\* a game is on, and a third name still has no record
C14_Witness ==
    /\ \E n \in DOMAIN globalStats, m \in DOMAIN globalStats :
          /\ n # m
          /\ globalStats[n] = [wins |-> 1, losses |-> 0]
          /\ globalStats[m] = [wins |-> 0, losses |-> 1]
    /\ Guest \notin DOMAIN globalStats
    /\ \E r \in DOMAIN rooms : Len(rooms[r].players) = 2
    /\ \E w \in DOMAIN clients : clients[w].state = "playing"
    /\ sent = << >>

\* C17: login{name, avatar} stores a display name of at most 15 characters
\* ("Player" when the name is empty); afterwards the name has a stats
\* record, zeroed if there was none before and otherwise as it was; no
\* other record changes; the sender's status is Lobby; the first message is
\* login_success with the sender's own id, to the sender, and a lobby_update
\* that lists the sender reaches the sender after it.
C17_Login ==
    [][ \A w \in DOMAIN clients, name \in LedgerNames, avatar \in AvatarInputs :
            Login(w, name, avatar) =>
                LET stored == clients'[w].name
                IN  /\ Len(stored) <= SafeNameLen
                    /\ stored = (IF name = EmptyStr THEN Player ELSE Substring(name, SafeNameLen))
                    /\ stored \in DOMAIN globalStats'
                    /\ globalStats'[stored] = (IF stored \in DOMAIN globalStats THEN globalStats[stored]
                                               ELSE [wins |-> 0, losses |-> 0])
                    /\ \A n \in DOMAIN globalStats : n \in DOMAIN globalStats' /\ globalStats'[n] = globalStats[n]
                    /\ DOMAIN globalStats' \subseteq DOMAIN globalStats \cup {stored}
                    /\ clients'[w].state = "lobby"
                    /\ sent' # << >>
                    /\ sent'[1] = [to |-> w, data |-> [type |-> "login_success", myId |-> clients[w].id]]
                    /\ \E i \in 2..Len(sent') :
                          /\ sent'[i].to = w
                          /\ sent'[i].data.type = "lobby_update"
                          /\ clients[w].id \in Range(IdsOf(sent'[i].data.players))
      ]_vars

\* the sockets a room lists (the room server lists them inside records)
Sockets(r) ==
    IF iteration = "room" THEN {rooms[r].players[i].ws : i \in 1..Len(rooms[r].players)}
    ELSE Range(rooms[r].players)

\* C16: every session of the session table has one or two members, in every
\* state any sequence of join, create_private, join_private,
\* challenge_accept and disconnect events reaches under any of the three
\* iterations: no session is empty and none has more than two members.
C16_OneOrTwoMembers ==
    \A r \in DOMAIN rooms :
        /\ Len(rooms[r].players) \in {1, 2}
        /\ Cardinality(Sockets(r)) \in {1, 2}

\* the room server has just refused a third join of a room with two
\* members while another room is down to a single member
C16_Witness ==
    /\ iteration = "room"
    /\ \E w \in DOMAIN clients, r \in DOMAIN rooms :
          /\ sent = << [to |-> w, data |-> [type |-> "error", message |-> "Room full"]] >>
          /\ Len(rooms[r].players) = 2
          /\ w \notin Sockets(r)
    /\ \E r \in DOMAIN rooms : Len(rooms[r].players) = 1

\* C20: every member of every session of the session table is a registered
\* connection that has not closed, so no session lists a closed connection,
\* and when no connection is left the session table is empty.
C20_MembersAreConnected ==
    /\ \A r \in DOMAIN rooms : Sockets(r) \subseteq DOMAIN clients
    /\ (running /\ DOMAIN clients = {}) => DOMAIN rooms = {}

====
